---------------------------- MODULE Spec2Model ----------------------------
(***************************************************************************)
(* Model of the M-AJIRA call-centre dashboard (src/app.py): the workbook   *)
(* loaders, the Streamlit script run main() with its 30 s cache and 30 s   *)
(* sleep-and-rerun loop, and the metrics computed by the three views.      *)
(*                                                                         *)
(* A DataFrame is [cols |-> set of column names, rows |-> sequence of      *)
(* functions from cols to cells].  A worksheet is [state, header, body]:   *)
(* get_all_values() returns the header row followed by the body rows.      *)
(* Cells are strings; a Timestamp cell is the token [a, b, h] standing for *)
(* the text "a/b/2025 h:00:00" (a = 0: text that is no date).              *)
(***************************************************************************)
EXTENDS Integers, Sequences, FiniteSets, TLC

VARIABLES
    connOk,          \* gc.open(SHEET_NAME) succeeds at this moment
    agentWs,         \* sheet.sheet1 (Agent Logs)
    systemWs,        \* worksheet "System_Logs"
    queueWs,         \* worksheets "Queue_MAjira", "Queue_General"
    cache,           \* the st.cache_data(ttl=30) entry of load_all_data
    pc,              \* position of the script: "idle", "sleeping", "raised"
    trigger,         \* what started the last run of main()
    slept,           \* seconds spent in time.sleep(30) so far
    view_mode,       \* the radio widget's value
    selected_date,   \* the date_input widget's value
    admin_unlocked,  \* st.session_state.admin_unlocked
    df_agents,       \* main()'s locals
    df_system,
    df_queues,
    error_shown,     \* the st.error element of load_all_data is on the page
    roi,             \* what render_marketing_roi computed in the last run
    traffic,         \* what render_live_traffic computed in the last run
    leaderboard      \* what render_talent_operations computed in the last run

vars == <<connOk, agentWs, systemWs, queueWs, cache, pc, trigger, slept,
          view_mode, selected_date, admin_unlocked, df_agents, df_system,
          df_queues, error_shown, roi, traffic, leaderboard>>

sheets == <<connOk, agentWs, systemWs, queueWs>>

(***************************************************************************)
(* Bounds of the model.                                                    *)
(***************************************************************************)
MaxAgentRows == 3
MaxSystemRows == 2
MaxQueueRows == 1
MaxCycleRows == 2
TICK_SECS == 15
MaxLoadRows == 1
MaxNormRows == 2

(***************************************************************************)
(* Program constants.                                                      *)
(***************************************************************************)
CACHE_TTL == 30
SLEEP_SECS == 30

MARKETING == "Marketing & ROI"
LIVE_TRAFFIC == "Live Traffic & Recovery"
TALENT == "Talent & Operations"
Views == {MARKETING, LIVE_TRAFFIC, TALENT}

queue_names == <<"Queue_MAjira", "Queue_General">>

interested_statuses == {"Interested", "Registered", "Registered (Paid Activation)"}

AgentHeader == {"Timestamp", "Phone", "Lead Status", "Source", "Category",
                "Specific Reason", "Skill", "County", "Agent Name", "Call Status"}

EmptyAgentColumns == {"Timestamp", "Date", "Phone", "Lead Status", "Source",
                      "Category", "Skill", "County", "Hour", "Agent Name"}

EmptyQueueColumns == {"Phone", "Status", "Assigned Agent", "Queue Origin"}

(***************************************************************************)
(* Dates.  Every timestamp of the model lies in 2025; a date is            *)
(* [day, month], NaT is the date/instant of a cell that failed to parse.   *)
(***************************************************************************)
NaTDate == [day |-> 0, month |-> 0]
NaT == [day |-> 0, month |-> 0, hour |-> -1]
Today == [day |-> 25, month |-> 3]
Earlier == [day |-> 5, month |-> 3]
Dates == {Today, Earlier}

(***************************************************************************)
(* pd.to_datetime(cell, dayfirst=..., errors='coerce') of one cell.  A     *)
(* cell that already is a Timestamp (or NaT) is returned as it is.  The    *)
(* text token a/b is read day/month when dayfirst, month/day otherwise;    *)
(* when the preferred reading has no such month the other reading is       *)
(* taken; a token with neither reading becomes NaT.                        *)
(***************************************************************************)
IsTimestamp(cell) == "day" \in DOMAIN cell

\* A variant that prints a Timestamp as year-month-day text and reads that
\* text again, day before month when dayfirst.
to_datetime_reparsing(tok, dayfirst) ==
    IF IsTimestamp(tok)
    THEN IF dayfirst /\ tok.day \in 1..12 /\ tok.month \in 1..31
         THEN [day |-> tok.month, month |-> tok.day, hour |-> tok.hour]
         ELSE tok
    ELSE LET dm == [day |-> tok.a, month |-> tok.b, hour |-> tok.h]
             md == [day |-> tok.b, month |-> tok.a, hour |-> tok.h]
             okDM == tok.a \in 1..31 /\ tok.b \in 1..12
             okMD == tok.b \in 1..31 /\ tok.a \in 1..12
         IN  IF dayfirst
             THEN IF okDM THEN dm ELSE IF okMD THEN md ELSE NaT
             ELSE IF okMD THEN md ELSE IF okDM THEN dm ELSE NaT

to_datetime(tok, dayfirst) ==
    IF IsTimestamp(tok) THEN tok
    ELSE LET dm == [day |-> tok.a, month |-> tok.b, hour |-> tok.h]
             md == [day |-> tok.b, month |-> tok.a, hour |-> tok.h]
             okDM == tok.a \in 1..31 /\ tok.b \in 1..12
             okMD == tok.b \in 1..31 /\ tok.a \in 1..12
         IN  IF dayfirst
             THEN IF okDM THEN dm ELSE IF okMD THEN md ELSE NaT
             ELSE IF okMD THEN md ELSE IF okDM THEN dm ELSE NaT

dt_date(ts) == [day |-> ts.day, month |-> ts.month]

dt_hour(ts) == ts.hour

(***************************************************************************)
(* Strings the code inspects character by character, and their order.      *)
(***************************************************************************)
Chars(s) ==
    CASE s = "Missed" -> <<"M", "i", "s", "s", "e", "d">>
      [] s = "MISSED CALL" -> <<"M", "I", "S", "S", "E", "D", " ", "C", "A", "L", "L">>
      [] s = "abandoned" -> <<"a", "b", "a", "n", "d", "o", "n", "e", "d">>
      [] s = "Call Lost" -> <<"C", "a", "l", "l", " ", "L", "o", "s", "t">>
      [] s = "Answered" -> <<"A", "n", "s", "w", "e", "r", "e", "d">>
      [] s = "Miss" -> <<"M", "i", "s", "s">>
      [] OTHER -> <<>>

lower(c) ==
    CASE c = "A" -> "a" [] c = "B" -> "b" [] c = "C" -> "c" [] c = "D" -> "d"
      [] c = "E" -> "e" [] c = "I" -> "i" [] c = "L" -> "l" [] c = "M" -> "m"
      [] c = "N" -> "n" [] c = "O" -> "o" [] c = "S" -> "s" [] c = "T" -> "t"
      [] OTHER -> c

Lowered(cs) == [i \in 1..Len(cs) |-> lower(cs[i])]

Contains(cs, pat) ==
    \E i \in 1..(Len(cs) - Len(pat) + 1) : SubSeq(cs, i, i + Len(pat) - 1) = pat

\* Python's order of the strings that are sorted (group keys, modes).
StrOrd(s) ==
    CASE s = "Asha" -> 1
      [] s = "Brian" -> 2
      [] s = "Facebook" -> 3
      [] s = "N/A" -> 4
      [] s = "Plumbing" -> 5
      [] s = "Radio" -> 6
      [] s = "Tailoring" -> 7
      [] s = "Unknown" -> 8
      [] s = "Web" -> 9
      [] OTHER -> 10

\* h.strip() of a header cell.
strip(h) ==
    CASE h = " Category " -> "Category"
      [] h = "Disposition " -> "Disposition"
      [] h = " Timestamp" -> "Timestamp"
      [] OTHER -> h

(***************************************************************************)
(* DataFrames.                                                             *)
(***************************************************************************)
EmptyFrame == [cols |-> {}, rows |-> <<>>]

ColumnsOnly(cs) == [cols |-> cs, rows |-> <<>>]

empty(df) == Len(df.rows) = 0 \/ df.cols = {}

HasCol(df, c) == c \in df.cols

\* len(ws.get_all_values()): the header row and the body rows.
NumValues(ws) == IF ws.header = {} THEN 0 ELSE 1 + Len(ws.body)

\* pd.DataFrame(rows[1:], columns=[h.strip() for h in rows[0]])
DataFrame(ws) ==
    LET cs == {strip(h) : h \in ws.header}
        raw(c) == CHOOSE h \in ws.header : strip(h) = c
    IN  [cols |-> cs,
         rows |-> [i \in 1..Len(ws.body) |-> [c \in cs |-> ws.body[i][raw(c)]]]]

Range(f) == {f[i] : i \in DOMAIN f}

(***************************************************************************)
(* SECTION 3: DATA ENGINE.  A loader either returns a frame or raises.     *)
(***************************************************************************)
Returned(df) == [exc |-> FALSE, df |-> df]

Raised == [exc |-> TRUE, df |-> EmptyFrame]

\* A variant whose 'Category' default is the literal alone.
column_defaults_literal(df, r, col) ==
    CASE col = "Call Status" -> "Answered"
      [] col = "Category" -> "General Inquiry"
      [] col = "Specific Reason" -> "N/A"
      [] col = "Lead Status" -> "Inquiry Only"
      [] col = "Skill" -> "N/A"
      [] col = "County" -> "N/A"
      [] col = "Source" -> "Unknown"
      [] col = "Agent Name" -> "Unknown"

\* The dict column_defaults: the value df[col] gets in row r when col is no
\* column of df.  'Category' is df.get('Disposition', 'General Inquiry').
column_defaults(df, r, col) ==
    CASE col = "Call Status" -> "Answered"
      [] col = "Category" ->
            IF HasCol(df, "Disposition") THEN r["Disposition"] ELSE "General Inquiry"
      [] col = "Specific Reason" -> "N/A"
      [] col = "Lead Status" -> "Inquiry Only"
      [] col = "Skill" -> "N/A"
      [] col = "County" -> "N/A"
      [] col = "Source" -> "Unknown"
      [] col = "Agent Name" -> "Unknown"

DefaultedColumns == {"Call Status", "Category", "Specific Reason", "Lead Status",
                     "Skill", "County", "Source", "Agent Name"}

\* df['Timestamp'] = pd.to_datetime(...); df['Date'] = ...dt.date;
\* df['Hour'] = ...dt.hour
AgentTimestamps(df) ==
    LET cs == df.cols \cup {"Date", "Hour"}
        ts(r) == to_datetime(r["Timestamp"], TRUE)
    IN  [cols |-> cs,
         rows |-> [i \in 1..Len(df.rows) |->
                    [k \in cs |->
                       CASE k = "Timestamp" -> ts(df.rows[i])
                         [] k = "Date" -> dt_date(ts(df.rows[i]))
                         [] k = "Hour" -> dt_hour(ts(df.rows[i]))
                         [] OTHER -> df.rows[i][k]]]]

\* for col, default in column_defaults.items():
\*     if col not in df.columns: df[col] = default
EnsureColumns(df) ==
    LET cs == df.cols \cup DefaultedColumns
    IN  [cols |-> cs,
         rows |-> [i \in 1..Len(df.rows) |->
                    [k \in cs |->
                       IF k \in df.cols THEN df.rows[i][k]
                       ELSE column_defaults(df, df.rows[i], k)]]]

\* A variant that absorbs its failure, like the optional loaders.
load_agent_logs_absorbing(ws) ==
    IF ws.state # "ok" THEN Returned(EmptyFrame)
    ELSE IF NumValues(ws) <= 1 THEN Returned(ColumnsOnly(EmptyAgentColumns))
    ELSE IF ~HasCol(DataFrame(ws), "Timestamp") THEN Returned(EmptyFrame)
    ELSE Returned(EnsureColumns(AgentTimestamps(DataFrame(ws))))

load_agent_logs(ws) ==
    IF ws.state # "ok" THEN Raised
    ELSE IF NumValues(ws) <= 1 THEN Returned(ColumnsOnly(EmptyAgentColumns))
    ELSE IF ~HasCol(DataFrame(ws), "Timestamp") THEN Raised
    ELSE Returned(EnsureColumns(AgentTimestamps(DataFrame(ws))))

\* df['Timestamp'] = pd.to_datetime(df['Timestamp'], errors='coerce');
\* df['Date'] = df['Timestamp'].dt.date
SystemTimestamps(df) ==
    LET cs == df.cols \cup {"Date"}
        ts(r) == to_datetime(r["Timestamp"], FALSE)
    IN  [cols |-> cs,
         rows |-> [i \in 1..Len(df.rows) |->
                    [k \in cs |->
                       CASE k = "Timestamp" -> ts(df.rows[i])
                         [] k = "Date" -> dt_date(ts(df.rows[i]))
                         [] OTHER -> df.rows[i][k]]]]

\* Everything is inside try/except Exception: a worksheet that is absent
\* or unreadable, or a frame without Timestamp, gives pd.DataFrame().
load_system_logs(ws) ==
    IF ws.state # "ok" THEN EmptyFrame
    ELSE IF NumValues(ws) <= 1 THEN EmptyFrame
    ELSE IF ~HasCol(DataFrame(ws), "Timestamp") THEN EmptyFrame
    ELSE SystemTimestamps(DataFrame(ws))

\* One turn of the for loop: the frames appended to queues_data by q_name.
QueueFrames(ws, q_name) ==
    IF ws.state = "ok" /\ NumValues(ws) > 1
    THEN LET df == DataFrame(ws)
             cs == df.cols \cup {"Queue Origin"}
         IN  <<[cols |-> cs,
                rows |-> [i \in 1..Len(df.rows) |->
                           [k \in cs |-> IF k = "Queue Origin" THEN q_name
                                         ELSE df.rows[i][k]]]]>>
    ELSE <<>>

\* pd.concat(frames, ignore_index=True): the rows in order, over the union
\* of the columns, a cell of a column its frame lacks being NaN.
concat(frames) ==
    LET cs == UNION {frames[i].cols : i \in 1..Len(frames)}
        widen(df) == [i \in 1..Len(df.rows) |->
                        [k \in cs |-> IF k \in df.cols THEN df.rows[i][k] ELSE "NaN"]]
        all[n \in 0..Len(frames)] ==
            IF n = 0 THEN <<>> ELSE all[n - 1] \o widen(frames[n])
    IN  [cols |-> cs, rows |-> all[Len(frames)]]

\* A variant with one try around the whole loop: a failing sheet ends it.
load_recovery_queues_one_try(qws) ==
    LET first == QueueFrames(qws[queue_names[1]], queue_names[1])
        queues_data ==
            IF qws[queue_names[1]].state # "ok" THEN <<>>
            ELSE first \o QueueFrames(qws[queue_names[2]], queue_names[2])
    IN  IF queues_data # <<>> THEN concat(queues_data)
        ELSE ColumnsOnly(EmptyQueueColumns)

load_recovery_queues(qws) ==
    LET queues_data == QueueFrames(qws[queue_names[1]], queue_names[1])
                       \o QueueFrames(qws[queue_names[2]], queue_names[2])
    IN  IF queues_data # <<>> THEN concat(queues_data)
        ELSE ColumnsOnly(EmptyQueueColumns)

Degraded == [err |-> TRUE, agents |-> EmptyFrame, system |-> EmptyFrame,
             queues |-> EmptyFrame]

\* The body of load_all_data: gc.open, the three loaders, and the except
\* branch that shows st.error and returns three pd.DataFrame().
load_all_data(conn, aws, sws, qws) ==
    IF ~conn THEN Degraded
    ELSE IF load_agent_logs(aws).exc THEN Degraded
    ELSE [err |-> FALSE,
          agents |-> load_agent_logs(aws).df,
          system |-> load_system_logs(sws),
          queues |-> load_recovery_queues(qws)]

\* @st.cache_data(ttl=30): the stored result is returned while it is
\* younger than the ttl.
\* A variant whose entry expires one tick late.
CacheHitLate == cache.valid /\ cache.age <= CACHE_TTL

CacheHit == cache.valid /\ cache.age < CACHE_TTL

CachedResult ==
    IF CacheHit THEN cache.value ELSE load_all_data(connOk, agentWs, systemWs, queueWs)

(***************************************************************************)
(* SECTION 4: VIEW COMPONENTS.  Numbers shown as text are                  *)
(* [kind, val]: kind "num" with its value (percentages to one decimal are  *)
(* kept in tenths), "inf", "nan", or the literal text shown instead.       *)
(***************************************************************************)
Num(n) == [kind |-> "num", val |-> n]

Text(s) == [kind |-> s, val |-> 0]

\* round() of n / d (n >= 0, d > 0) to an integer, ties to the even one.
RoundHalfEven(n, d) ==
    LET q == n \div d
        r == n % d
    IN  IF 2 * r < d THEN q
        ELSE IF 2 * r > d THEN q + 1
        ELSE IF q % 2 = 0 THEN q ELSE q + 1

\* len(df[df[col].isin(values)])
CountIn(df, col, values) ==
    Cardinality({i \in 1..Len(df.rows) : df.rows[i][col] \in values})

\* df[col].mode()[0]: the values that occur most often, sorted; the first.
mode0(df, col) ==
    LET vals == {df.rows[i][col] : i \in 1..Len(df.rows)}
        n(v) == CountIn(df, col, {v})
        modes == {v \in vals : \A w \in vals : n(w) <= n(v)}
    IN  CHOOSE v \in modes : \A w \in modes : StrOrd(v) <= StrOrd(w)

NotRendered == [shown |-> FALSE]

\* The column lookups of render_marketing_roi that raise KeyError.
MarketingRaises(df) ==
    \/ ~HasCol(df, "Lead Status")
    \/ ~empty(df) /\ (~HasCol(df, "Source") \/ ~HasCol(df, "Skill"))
    \/ ~HasCol(df, "Category")
    \/ ~empty(df) /\ ~HasCol(df, "Hour")

render_marketing_roi(df) ==
    LET total_calls == Len(df.rows)
        interested_count == CountIn(df, "Lead Status", interested_statuses)
    IN  [shown |-> TRUE,
         total_calls |-> total_calls,
         interested_count |-> interested_count,
         top_source |-> IF ~empty(df) THEN mode0(df, "Source") ELSE "N/A",
         top_skill |-> IF ~empty(df) THEN mode0(df, "Skill") ELSE "N/A",
         delta |-> IF total_calls > 0
                   THEN Num(RoundHalfEven(interested_count * 1000, total_calls))
                   ELSE Text("0%")]

\* df[df['Date'] == selected_date] if not df.empty else df
Daily(df, d) ==
    IF ~empty(df)
    THEN LET on(r) == r["Date"] = d
         IN  [cols |-> df.cols, rows |-> SelectSeq(df.rows, on)]
    ELSE df

\* A variant that matches the case as written.
missed_mask_cased(status) ==
    LET cs == Chars(status)
    IN  \/ Contains(cs, <<"M", "i", "s", "s", "e", "d">>)
        \/ Contains(cs, <<"A", "b", "a", "n", "d", "o", "n", "e", "d">>)
        \/ Contains(cs, <<"L", "o", "s", "t">>)

\* .astype(str).str.contains('Missed|Abandoned|Lost', case=False, na=False)
missed_mask(status) ==
    LET cs == Lowered(Chars(status))
    IN  \/ Contains(cs, <<"m", "i", "s", "s", "e", "d">>)
        \/ Contains(cs, <<"a", "b", "a", "n", "d", "o", "n", "e", "d">>)
        \/ Contains(cs, <<"l", "o", "s", "t">>)

\* The column lookups of render_live_traffic that raise KeyError.
TrafficRaises(dfa, dfs, dfq) ==
    \/ ~empty(dfs) /\ ~HasCol(dfs, "Date")
    \/ ~empty(dfa) /\ ~HasCol(dfa, "Date")
    \/ ~empty(dfq) /\ ~(EmptyQueueColumns \subseteq dfq.cols)

render_live_traffic(dfa, dfs, dfq, d) ==
    LET daily_system == Daily(dfs, d)
        daily_agents == Daily(dfa, d)
        total_hits == Len(daily_system.rows)
        total_handled == Len(daily_agents.rows)
        total_missed ==
            IF ~empty(daily_system) /\ HasCol(daily_system, "Call Status")
            THEN Cardinality({i \in 1..Len(daily_system.rows) :
                                missed_mask(daily_system.rows[i]["Call Status"])})
            ELSE 0
    IN  [shown |-> TRUE,
         total_hits |-> total_hits,
         total_handled |-> total_handled,
         total_missed |-> total_missed,
         ready_count |-> IF ~empty(dfq) THEN CountIn(dfq, "Status", {"Ready"}) ELSE 0,
         assigned_count |-> IF ~empty(dfq) THEN CountIn(dfq, "Status", {"Assigned"}) ELSE 0,
         delta |-> IF total_hits > 0
                   THEN Num(RoundHalfEven(total_handled * 100, total_hits))
                   ELSE Text("")]

\* The keys of df.groupby('Agent Name'), which groupby sorts.
RECURSIVE SortedKeys(_)
SortedKeys(S) ==
    IF S = {} THEN <<>>
    ELSE LET m == CHOOSE v \in S : \A w \in S : StrOrd(v) <= StrOrd(w)
         IN  <<m>> \o SortedKeys(S \ {m})

\* .agg(Total_Calls=('Timestamp', 'count')): count() of the group's
\* Timestamp cells, which leaves out the NaT ones.
Total_Calls(df, name) ==
    Cardinality({i \in 1..Len(df.rows) :
                   df.rows[i]["Agent Name"] = name /\ df.rows[i]["Timestamp"] # NaT})

\* df[interested_mask].groupby('Agent Name').size(), then fillna(0)
Successful_Reg(df, name) ==
    Cardinality({i \in 1..Len(df.rows) :
                   /\ df.rows[i]["Agent Name"] = name
                   /\ df.rows[i]["Lead Status"] \in interested_statuses})

\* (Successful_Reg / Total_Calls * 100).round(1) of a pandas Series: a
\* zero divisor gives inf, and 0 / 0 gives NaN.
Conversion_Rate(succ, total) ==
    IF total = 0 THEN (IF succ = 0 THEN Text("nan") ELSE Text("inf"))
    ELSE Num(RoundHalfEven(succ * 1000, total))

agent_stats(df) ==
    LET keys == SortedKeys({df.rows[i]["Agent Name"] : i \in 1..Len(df.rows)})
    IN  [i \in 1..Len(keys) |->
           [agent |-> keys[i],
            Total_Calls |-> Total_Calls(df, keys[i]),
            Successful_Reg |-> Successful_Reg(df, keys[i]),
            Conversion_Rate |-> Conversion_Rate(Successful_Reg(df, keys[i]),
                                                Total_Calls(df, keys[i]))]]

\* x > y for two Conversion_Rate cells (NaN compares with nothing).
RateGreater(x, y) ==
    \/ x.kind = "inf" /\ y.kind = "num"
    \/ x.kind = "num" /\ y.kind = "num" /\ x.val > y.val

\* sort_values(by=['Successful_Reg', 'Conversion_Rate'], ascending=False):
\* x is placed before y; NaN rates go last in their Successful_Reg group.
SortsBefore(x, y) ==
    \/ x.Successful_Reg > y.Successful_Reg
    \/ /\ x.Successful_Reg = y.Successful_Reg
       /\ \/ RateGreater(x.Conversion_Rate, y.Conversion_Rate)
          \/ x.Conversion_Rate.kind # "nan" /\ y.Conversion_Rate.kind = "nan"

\* A variant that is not stable: each row goes in front of its equals.
sort_values_unstable(stats) ==
    LET insert(s, x) ==
            LET k == Cardinality({i \in 1..Len(s) : SortsBefore(s[i], x)})
            IN  SubSeq(s, 1, k) \o <<x>> \o SubSeq(s, k + 1, Len(s))
        sorted[n \in 0..Len(stats)] ==
            IF n = 0 THEN <<>> ELSE insert(sorted[n - 1], stats[n])
    IN  sorted[Len(stats)]

\* The sort is stable: each row goes behind the rows it does not precede.
sort_values(stats) ==
    LET insert(s, x) ==
            LET k == Cardinality({i \in 1..Len(s) : ~SortsBefore(x, s[i])})
            IN  SubSeq(s, 1, k) \o <<x>> \o SubSeq(s, k + 1, Len(s))
        sorted[n \in 0..Len(stats)] ==
            IF n = 0 THEN <<>> ELSE insert(sorted[n - 1], stats[n])
    IN  sorted[Len(stats)]

\* .reset_index(); leaderboard.index += 1
Ranked(rows) ==
    [i \in 1..Len(rows) |->
       [rank |-> i, agent |-> rows[i].agent, Total_Calls |-> rows[i].Total_Calls,
        Successful_Reg |-> rows[i].Successful_Reg,
        Conversion_Rate |-> rows[i].Conversion_Rate]]

\* The column lookups of render_talent_operations and render_admin_vault
\* that raise KeyError.
TalentRaises(dfa, dfs, unlocked) ==
    \/ ~empty(dfa) /\ ~({"County", "Skill", "Agent Name", "Timestamp", "Lead Status"}
                          \subseteq dfa.cols)
    \/ unlocked /\ ~empty(dfs) /\ ~HasCol(dfs, "Timestamp")

render_talent_operations(dfa) ==
    IF ~empty(dfa)
    THEN [shown |-> TRUE, rows |-> Ranked(sort_values(agent_stats(dfa)))]
    ELSE [shown |-> TRUE, rows |-> <<>>]

(***************************************************************************)
(* SECTION 5: MAIN APPLICATION.  One run of the script main() with the     *)
(* widget values v (view), d (date) and the session's admin flag: the      *)
(* cached load, the selected view, and either the sleep or the exception   *)
(* that ends the run.                                                      *)
(***************************************************************************)
ViewRaises(v, got, unlocked) ==
    CASE v = MARKETING -> MarketingRaises(got.agents)
      [] v = LIVE_TRAFFIC -> TrafficRaises(got.agents, got.system, got.queues)
      [] OTHER -> TalentRaises(got.agents, got.system, unlocked)

main(trig, v, d, unlocked) ==
    LET got == CachedResult
        raises == ViewRaises(v, got, unlocked)
    IN  /\ cache' = IF CacheHit THEN cache
                    ELSE [valid |-> TRUE, age |-> 0, value |-> got]
        /\ df_agents' = got.agents
        /\ df_system' = got.system
        /\ df_queues' = got.queues
        /\ error_shown' = got.err
        /\ view_mode' = v
        /\ selected_date' = d
        /\ admin_unlocked' = unlocked
        /\ trigger' = trig
        /\ slept' = 0
        /\ pc' = IF raises THEN "raised" ELSE "sleeping"
        /\ roi' = IF v = MARKETING /\ ~raises
                  THEN render_marketing_roi(got.agents) ELSE NotRendered
        /\ traffic' = IF v = LIVE_TRAFFIC /\ ~raises
                      THEN render_live_traffic(got.agents, got.system, got.queues, d)
                      ELSE NotRendered
        /\ leaderboard' = IF v = TALENT /\ ~raises
                          THEN render_talent_operations(got.agents) ELSE NotRendered
        /\ UNCHANGED sheets

\* The session opens: the radio shows its first option, the date is today.
Start ==
    /\ pc = "idle"
    /\ main("start", MARKETING, Today, FALSE)

\* time.sleep(30) has returned; st.rerun() runs the script again.
TimerRerun ==
    /\ pc = "sleeping"
    /\ slept >= SLEEP_SECS
    /\ main("timer", view_mode, selected_date, admin_unlocked)

\* The user picks another view: the run in progress is dropped and the script
\* reruns; the date_input, not on the page before, shows today.
SelectView(v) ==
    /\ pc # "idle"
    /\ v # view_mode
    /\ main("user", v, Today, admin_unlocked)

\* The user picks another date in the Live Traffic view.
SelectDate(d) ==
    /\ pc # "idle"
    /\ view_mode = LIVE_TRAFFIC
    /\ d # selected_date
    /\ main("user", view_mode, d, admin_unlocked)

\* "Unlock Logs" with the right password, and "Lock Data": the flag is set
\* and st.rerun() runs the script again.
UnlockLogs ==
    /\ pc = "sleeping"
    /\ view_mode = TALENT
    /\ ~admin_unlocked
    /\ main("user", view_mode, selected_date, TRUE)

LockData ==
    /\ pc = "sleeping"
    /\ view_mode = TALENT
    /\ admin_unlocked
    /\ main("user", view_mode, selected_date, FALSE)

Min(a, b) == IF a < b THEN a ELSE b

\* Time passes: the sleep of a sleeping script and the age of the cache
\* entry advance (both are only compared with 30).
Tick ==
    /\ pc # "idle"
    /\ \/ pc = "sleeping" /\ slept < SLEEP_SECS
       \/ cache.valid /\ cache.age < CACHE_TTL
    /\ slept' = IF pc = "sleeping" THEN Min(slept + TICK_SECS, SLEEP_SECS) ELSE slept
    /\ cache' = IF cache.valid
                THEN [cache EXCEPT !.age = Min(cache.age + TICK_SECS, CACHE_TTL)]
                ELSE cache
    /\ UNCHANGED <<sheets, pc, trigger, view_mode, selected_date, admin_unlocked,
                   df_agents, df_system, df_queues, error_shown, roi, traffic,
                   leaderboard>>

(***************************************************************************)
(* The workbook, which agents and webhooks write and the network serves.   *)
(***************************************************************************)
T_TODAY == [a |-> 25, b |-> 3, h |-> 9]
T_EARLIER == [a |-> 5, b |-> 3, h |-> 14]
T_BAD == [a |-> 0, b |-> 0, h |-> 0]

SystemHeader == {"Timestamp", "Call Status"}
QueueHeader == {"Phone", "Status", "Assigned Agent"}

Worksheet(st, hdr, body) == [state |-> st, header |-> hdr, body |-> body]

\* The row of a sheet with header hdr that holds the cells vals.
Row(hdr, vals) == [h \in hdr |-> vals[strip(h)]]

AgentCells(ts, lead, source, skill, agent, cat, disp) ==
    [c \in AgentHeader \cup {"Disposition"} |->
       CASE c = "Timestamp" -> ts
         [] c = "Lead Status" -> lead
         [] c = "Source" -> source
         [] c = "Skill" -> skill
         [] c = "Agent Name" -> agent
         [] c = "Category" -> cat
         [] c = "Disposition" -> disp
         [] c = "Phone" -> "0700"
         [] c = "Specific Reason" -> "Fees"
         [] c = "County" -> "Nairobi"
         [] c = "Call Status" -> "Answered"]

SystemCells(ts, status) ==
    [c \in SystemHeader |-> IF c = "Timestamp" THEN ts ELSE status]

QueueCells(status) ==
    [c \in QueueHeader |->
       CASE c = "Phone" -> "0700" [] c = "Status" -> status
         [] c = "Assigned Agent" -> "Asha"]

SeqsUpTo(S, n) == UNION {[1..k -> S] : k \in 0..n}

Bodies(hdr, cells, n) ==
    {[i \in 1..Len(b) |-> Row(hdr, b[i])] : b \in SeqsUpTo(cells, n)}

IdleCache == [valid |-> FALSE, age |-> 0, value |-> Degraded]

\* The state of a session that has not run the script yet.
Idle ==
    /\ cache = IdleCache
    /\ pc = "idle"
    /\ trigger = "none"
    /\ slept = 0
    /\ view_mode = MARKETING
    /\ selected_date = Today
    /\ admin_unlocked = FALSE
    /\ df_agents = EmptyFrame
    /\ df_system = EmptyFrame
    /\ df_queues = EmptyFrame
    /\ error_shown = FALSE
    /\ roi = NotRendered
    /\ traffic = NotRendered
    /\ leaderboard = NotRendered

CycleCells == {AgentCells(T_TODAY, "Interested", "Web", "Plumbing", "Asha",
                          "Billing", "Resolved")}

\* A reachable workbook with empty sheets; rows are appended while it runs.
Init ==
    /\ connOk = TRUE
    /\ agentWs = Worksheet("ok", AgentHeader, <<>>)
    /\ systemWs = Worksheet("ok", SystemHeader, <<>>)
    /\ queueWs = [q \in Range(queue_names) |-> Worksheet("ok", QueueHeader, <<>>)]
    /\ Idle

\* An agent logs an inquiry: a row is appended to Sheet1.
AppendAgentLog ==
    /\ Len(agentWs.body) < MaxCycleRows
    /\ \E cells \in CycleCells :
         agentWs' = [agentWs EXCEPT !.body = Append(@, Row(agentWs.header, cells))]
    /\ UNCHANGED <<connOk, systemWs, queueWs, cache, pc, trigger, slept, view_mode,
                   selected_date, admin_unlocked, df_agents, df_system, df_queues,
                   error_shown, roi, traffic, leaderboard>>

\* The connection to the workbook is lost, or comes back.
ConnectionChanges ==
    /\ connOk' = ~connOk
    /\ UNCHANGED <<agentWs, systemWs, queueWs, cache, pc, trigger, slept, view_mode,
                   selected_date, admin_unlocked, df_agents, df_system, df_queues,
                   error_shown, roi, traffic, leaderboard>>

Next ==
    \/ Start
    \/ TimerRerun
    \/ \E v \in Views : SelectView(v)
    \/ \E d \in Dates : SelectDate(d)
    \/ UnlockLogs
    \/ LockData
    \/ Tick
    \/ AppendAgentLog
    \/ ConnectionChanges

Spec == Init /\ [][Next]_vars

(***************************************************************************)
(* Specifications of one session over a workbook that does not change     *)
(* while it is looked at: the workbook is drawn from a bounded set and the *)
(* user opens the session and moves between views and dates.               *)
(***************************************************************************)
NextUser ==
    \/ Start
    \/ \E v \in Views : SelectView(v)
    \/ \E d \in Dates : SelectDate(d)

Worksheets(states, headers, cells, n) ==
    UNION {{Worksheet(st, hdr, body) : st \in states, body \in Bodies(hdr, cells, n)} :
             hdr \in headers}

\* Workbooks with every combination of failing sources.
InitLoad ==
    /\ connOk \in BOOLEAN
    /\ agentWs \in Worksheets({"ok", "error"},
                              {AgentHeader, AgentHeader \ {"Timestamp"}},
                              CycleCells, MaxLoadRows)
    /\ systemWs \in Worksheets({"ok", "missing", "error"},
                               {SystemHeader, {"Call Status"}},
                               {SystemCells(T_TODAY, "Missed")}, MaxLoadRows)
    /\ queueWs \in [Range(queue_names) ->
                      Worksheets({"ok", "missing", "error"}, {QueueHeader},
                                 {QueueCells("Ready")}, MaxLoadRows)]
    /\ Idle

SpecLoad == InitLoad /\ [][NextUser]_vars

\* A workbook whose sheets all load, with the given Agent Logs sheets.
Loadable(agentSheets, systemSheets, majiraSheets, generalSheets) ==
    /\ agentWs \in agentSheets
    /\ systemWs \in systemSheets
    /\ queueWs \in {[q \in Range(queue_names) |->
                       IF q = queue_names[1] THEN m ELSE g] :
                    m \in majiraSheets, g \in generalSheets}
    /\ Idle

NoRows(hdr) == {Worksheet("ok", hdr, <<>>)}

\* Agent Logs of two agents, with leads of every kind and timestamps that
\* parse and that do not, beside one System Log of today.
TalentCells ==
    {AgentCells(ts, lead, "Web", "Plumbing", agent, "Billing", "Resolved") :
       ts \in {T_TODAY, T_BAD},
       lead \in {"Interested", "Inquiry Only"},
       agent \in {"Asha", "Brian"}}
    \cup {AgentCells(T_TODAY, "Registered (Paid Activation)", "Web", "Plumbing",
                     "Asha", "Billing", "Resolved")}

InitTalent ==
    /\ connOk = TRUE
    /\ Loadable(Worksheets({"ok"}, {AgentHeader}, TalentCells, MaxAgentRows),
                {Worksheet("ok", SystemHeader,
                           <<Row(SystemHeader, SystemCells(T_TODAY, "Answered"))>>)},
                NoRows(QueueHeader), NoRows(QueueHeader))

SpecTalent == InitTalent /\ [][NextUser]_vars

\* Agent Logs with two sources and two skills, over a connection that works
\* or not.
MarketingCells ==
    {AgentCells(T_TODAY, lead, source, skill, "Asha", "Billing", "Resolved") :
       lead \in {"Interested", "Inquiry Only"},
       source \in {"Web", "Facebook"},
       skill \in {"Plumbing", "Tailoring"}}

InitMarketing ==
    /\ connOk \in BOOLEAN
    /\ Loadable(Worksheets({"ok"}, {AgentHeader}, MarketingCells, MaxAgentRows),
                NoRows(SystemHeader), NoRows(QueueHeader), NoRows(QueueHeader))

SpecMarketing == InitMarketing /\ [][NextUser]_vars

\* System Logs of today with every kind of call status, or undated; queue
\* sheets with entries in several states.
TrafficSystemCells ==
    {SystemCells(T_TODAY, st) :
       st \in {"MISSED CALL", "abandoned", "Call Lost", "Answered"}}
    \cup {SystemCells(T_BAD, "Missed")}

TrafficAgentCells(ts) ==
    Row(AgentHeader,
        AgentCells(ts, "Interested", "Web", "Plumbing", "Asha", "Billing", "Resolved"))

\* Agent Logs with no inquiry, with one of today, and with one of today after
\* an undated one.
TrafficAgentSheets ==
    {Worksheet("ok", AgentHeader, body) :
       body \in {<<>>, <<TrafficAgentCells(T_TODAY)>>,
                 <<TrafficAgentCells(T_BAD), TrafficAgentCells(T_TODAY)>>}}

InitTraffic ==
    /\ connOk = TRUE
    /\ Loadable(TrafficAgentSheets,
                Worksheets({"ok"}, {SystemHeader, {"Timestamp"}},
                           TrafficSystemCells, MaxSystemRows),
                Worksheets({"ok"}, {QueueHeader},
                           {QueueCells("Ready"), QueueCells("Assigned")}, MaxQueueRows),
                Worksheets({"ok"}, {QueueHeader},
                           {QueueCells("Ready"), QueueCells("ready")}, MaxQueueRows))

SpecTraffic == InitTraffic /\ [][NextUser]_vars

\* Agent Logs whose header has or lacks Category, Disposition and Lead
\* Status, some cells padded with blanks.
NormHeaders ==
    {(AgentHeader \ {"Category", "Lead Status"}) \cup c \cup d \cup l :
       c \in {{}, {"Category"}, {" Category "}},
       d \in {{}, {"Disposition "}},
       l \in {{}, {"Lead Status"}}}

NormCells ==
    {AgentCells(ts, "Interested", "Web", "Plumbing", "Asha", cat, disp) :
       ts \in {T_TODAY, T_BAD},
       cat \in {"Billing", "Unknown"},
       disp \in {"Resolved", "Callback"}}

InitNorm ==
    /\ connOk = TRUE
    /\ Loadable(Worksheets({"ok"}, NormHeaders, NormCells, MaxNormRows),
                NoRows(SystemHeader), NoRows(QueueHeader), NoRows(QueueHeader))

SpecNorm == InitNorm /\ [][NextUser]_vars

(***************************************************************************)
(* Properties of the loaders (specification SpecLoad).                     *)
(***************************************************************************)
HeaderHas(ws, c) == \E h \in ws.header : strip(h) = c

\* The workbook cannot be opened, or Sheet1 cannot be fetched or read.
AgentLogsFail ==
    \/ ~connOk
    \/ agentWs.state # "ok"
    \/ Len(agentWs.body) > 0 /\ ~HeaderHas(agentWs, "Timestamp")

\* An optional worksheet is absent or cannot be fetched or read.
OptionalFails(ws) ==
    \/ ws.state # "ok"
    \/ Len(ws.body) > 0 /\ ~HeaderHas(ws, "Timestamp")

QueueFails(q) == queueWs[q].state # "ok"

\* The rows of frame df tagged with origin q, in order.
FromQueue(df, q) ==
    LET tagged(r) == r["Queue Origin"] = q
    IN  SelectSeq(df.rows, tagged)

\* C2: whichever of System_Logs, Queue_MAjira and Queue_General are absent or
\* fail, the load is not aborted: the Agent Logs rows are returned, an empty
\* record set stands for exactly the failing sources, and the rows of a queue
\* sheet that loaded are returned, tagged with their origin.
C2_OptionalSheetsNeverAbort ==
    (pc # "idle" /\ ~AgentLogsFail) =>
        /\ ~error_shown
        /\ Len(df_agents.rows) = Len(agentWs.body)
        /\ \A i \in 1..Len(agentWs.body) : \A h \in agentWs.header \ {"Timestamp"} :
              df_agents.rows[i][strip(h)] = agentWs.body[i][h]
        /\ Len(df_system.rows) = IF OptionalFails(systemWs) THEN 0
                                 ELSE Len(systemWs.body)
        /\ \A q \in Range(queue_names) :
              /\ Len(FromQueue(df_queues, q)) = IF QueueFails(q) THEN 0
                                                ELSE Len(queueWs[q].body)
              /\ ~QueueFails(q) =>
                    \A i \in 1..Len(queueWs[q].body) : \A h \in queueWs[q].header :
                       FromQueue(df_queues, q)[i][strip(h)] = queueWs[q].body[i][h]
        /\ Len(df_queues.rows) = Len(FromQueue(df_queues, queue_names[1]))
                                 + Len(FromQueue(df_queues, queue_names[2]))

\* System_Logs is absent and Queue_MAjira fails, and the run still holds
\* the Agent Logs rows and the rows of Queue_General.
C2_OneQueueSurvives ==
    /\ pc # "idle"
    /\ systemWs.state = "missing"
    /\ queueWs["Queue_MAjira"].state = "error"
    /\ Len(queueWs["Queue_MAjira"].body) > 0
    /\ Len(df_agents.rows) > 0
    /\ Len(df_queues.rows) > 0
    /\ df_system = EmptyFrame

\* C3: when the workbook cannot be opened or Agent Logs cannot be fetched,
\* load_agent_logs does not absorb the failure: the load as a whole fails, the
\* failure is surfaced and no record set is produced; a failing optional source
\* alone is absorbed and surfaces nothing.
C3_AgentLogsFailurePropagates ==
    pc # "idle" =>
        /\ (connOk /\ AgentLogsFail) => load_agent_logs(agentWs).exc
        /\ AgentLogsFail =>
              /\ error_shown
              /\ df_agents = EmptyFrame /\ df_system = EmptyFrame
              /\ df_queues = EmptyFrame
        /\ ~AgentLogsFail => ~error_shown

\* Sheet1 cannot be fetched while the connection and System_Logs are fine:
\* the run shows the error and holds no System Logs either.
C3_AgentFetchFailed ==
    /\ pc # "idle"
    /\ connOk
    /\ agentWs.state = "error"
    /\ ~OptionalFails(systemWs) /\ Len(systemWs.body) > 0
    /\ error_shown
    /\ df_system = EmptyFrame

(***************************************************************************)
(* Properties of the Agent Logs normalizer (specification SpecNorm).       *)
(***************************************************************************)
\* The cell of column c in row i of Sheet1, as written in the sheet.
RawCell(i, c) == agentWs.body[i][CHOOSE h \in agentWs.header : strip(h) = c]

Loaded == pc # "idle" /\ Len(df_agents.rows) > 0

\* Category of every record: the sheet's own when the header has the column,
\* else the record's Disposition when the header has that, else the literal.
CategoryChain ==
    \A i \in 1..Len(df_agents.rows) :
       df_agents.rows[i]["Category"] =
          IF HeaderHas(agentWs, "Category") THEN RawCell(i, "Category")
          ELSE IF HeaderHas(agentWs, "Disposition") THEN RawCell(i, "Disposition")
          ELSE "General Inquiry"

\* C8, as claimed: without a Category column Category is the Disposition if
\* there is one, else General Inquiry; without a Disposition column
\* Disposition is the Category if there is one, else N/A; a column the header
\* has is never overwritten.
C8_DefaultingChainBothWays ==
    Loaded =>
        /\ CategoryChain
        /\ HasCol(df_agents, "Disposition")
        /\ \A i \in 1..Len(df_agents.rows) :
              df_agents.rows[i]["Disposition"] =
                 IF HeaderHas(agentWs, "Disposition") THEN RawCell(i, "Disposition")
                 ELSE IF HeaderHas(agentWs, "Category") THEN RawCell(i, "Category")
                 ELSE "N/A"

\* C8, amended: Category is defaulted as claimed and a column the header has
\* is never overwritten, but a header without Disposition gets no Disposition
\* column at all.
C8_CategoryChainOnly ==
    Loaded =>
        /\ CategoryChain
        /\ HasCol(df_agents, "Disposition") <=> HeaderHas(agentWs, "Disposition")
        /\ HeaderHas(agentWs, "Disposition") =>
              \A i \in 1..Len(df_agents.rows) :
                 df_agents.rows[i]["Disposition"] = RawCell(i, "Disposition")

\* A sheet with Disposition and without Category has been loaded: the
\* records took their Category from it.
C8_CategoryFromDisposition ==
    /\ Loaded
    /\ ~HeaderHas(agentWs, "Category")
    /\ HeaderHas(agentWs, "Disposition")
    /\ df_agents.rows[1]["Category"] = "Callback"

(***************************************************************************)
(* Properties of the leaderboard (specification SpecTalent).               *)
(***************************************************************************)
\* The rows of Sheet1 of agent name, and those among them that succeeded.
RowsOf(name) == {i \in 1..Len(agentWs.body) : agentWs.body[i]["Agent Name"] = name}

SuccessesOf(name) ==
    {i \in RowsOf(name) : agentWs.body[i]["Lead Status"] \in
                             {"Interested", "Registered", "Registered (Paid Activation)"}}

AgentNames == {agentWs.body[i]["Agent Name"] : i \in 1..Len(agentWs.body)}

BoardShown == pc = "sleeping" /\ view_mode = TALENT /\ leaderboard.shown

\* C5: for every agent name of Agent Logs the leaderboard has totalCalls =
\* the number of its records (a timestamp that failed to parse counts),
\* successCount = the number of them with an interested lead status, and
\* conversionRate = successCount / totalCalls * 100 to one decimal.
C5_LeaderboardCounts ==
    BoardShown =>
        \A name \in AgentNames :
           \E k \in 1..Len(leaderboard.rows) :
              /\ leaderboard.rows[k].agent = name
              /\ leaderboard.rows[k].Total_Calls = Cardinality(RowsOf(name))
              /\ leaderboard.rows[k].Successful_Reg = Cardinality(SuccessesOf(name))
              /\ leaderboard.rows[k].Conversion_Rate =
                    Num(RoundHalfEven(Cardinality(SuccessesOf(name)) * 1000,
                                      Cardinality(RowsOf(name))))

\* The defined zero values of a ratio: 0 and "0%".
ZeroValues == {Num(0), Text("0%")}

\* C6: a ratio whose denominator is 0 is the defined zero value, and no ratio
\* is infinite or not a number: the interested rate, the answered percentage
\* and every agent's conversionRate.
C6_RatiosGuardZero ==
    /\ (roi.shown /\ roi.total_calls = 0) => roi.delta \in ZeroValues
    /\ (traffic.shown /\ traffic.total_hits = 0) => traffic.delta \in ZeroValues
    /\ leaderboard.shown =>
          \A k \in 1..Len(leaderboard.rows) :
             /\ leaderboard.rows[k].Conversion_Rate.kind \notin {"inf", "nan"}
             /\ leaderboard.rows[k].Total_Calls = 0 =>
                   leaderboard.rows[k].Conversion_Rate \in ZeroValues

\* x is a higher conversionRate than y.
Higher(x, y) ==
    \/ x.kind = "inf" /\ y.kind = "num"
    \/ x.kind = "num" /\ y.kind = "num" /\ x.val > y.val

\* C9: the leaderboard ranks every agent once, 1..n in order; successCount
\* descends; of two agents with equal successCount the one with the higher
\* conversionRate is first; agents equal on both keep the order they had in
\* the grouped table (that of their names).
C9_LeaderboardOrder ==
    BoardShown =>
        LET rows == leaderboard.rows
        IN  /\ {rows[k].agent : k \in 1..Len(rows)} = AgentNames
            /\ Len(rows) = Cardinality(AgentNames)
            /\ \A k \in 1..Len(rows) : rows[k].rank = k
            /\ \A i, j \in 1..Len(rows) :
                  i < j =>
                     /\ rows[i].Successful_Reg >= rows[j].Successful_Reg
                     /\ rows[i].Successful_Reg = rows[j].Successful_Reg =>
                           /\ ~Higher(rows[j].Conversion_Rate, rows[i].Conversion_Rate)
                           /\ rows[i].Conversion_Rate = rows[j].Conversion_Rate =>
                                 StrOrd(rows[i].agent) < StrOrd(rows[j].agent)

\* Two agents tie on successCount and the one with the higher conversionRate,
\* second in the grouped table, is ranked first.
C9_TieBrokenByRate ==
    /\ BoardShown
    /\ Len(leaderboard.rows) = 2
    /\ leaderboard.rows[1].agent = "Brian"
    /\ leaderboard.rows[1].Successful_Reg = leaderboard.rows[2].Successful_Reg
    /\ leaderboard.rows[1].Conversion_Rate.kind = "num"
    /\ leaderboard.rows[2].Conversion_Rate.kind = "num"
    /\ leaderboard.rows[1].Conversion_Rate.val > leaderboard.rows[2].Conversion_Rate.val

(***************************************************************************)
(* Properties of the top-line KPIs (specification SpecMarketing).          *)
(***************************************************************************)
Occurrences(c, v) ==
    Cardinality({i \in 1..Len(agentWs.body) : agentWs.body[i][c] = v})

MostFrequent(c) ==
    {agentWs.body[i][c] : i \in {k \in 1..Len(agentWs.body) :
        \A m \in 1..Len(agentWs.body) :
           Occurrences(c, agentWs.body[m][c]) <= Occurrences(c, agentWs.body[k][c])}}

FirstRowWith(c, v) ==
    CHOOSE i \in 1..Len(agentWs.body) :
       agentWs.body[i][c] = v /\ \A k \in 1..(i - 1) : agentWs.body[k][c] # v

\* top is the most frequent value of column c that occurs first in the rows.
FirstMetMode(c, top) ==
    /\ top \in MostFrequent(c)
    /\ \A w \in MostFrequent(c) : FirstRowWith(c, top) <= FirstRowWith(c, w)

\* top is the most frequent value of column c that sorts first.
SmallestMode(c, top) ==
    /\ top \in MostFrequent(c)
    /\ \A w \in MostFrequent(c) : StrOrd(top) <= StrOrd(w)

KpisShown == pc = "sleeping" /\ view_mode = MARKETING /\ roi.shown

\* C7: top source and top skill are the most frequent values of Agent Logs,
\* the one occurring first in record order when several tie; on an empty
\* Agent Log record set the view does not raise and both are "N/A".
C7_TopIsFirstMetMode ==
    (pc # "idle" /\ view_mode = MARKETING) =>
        /\ roi.shown
        /\ IF Len(df_agents.rows) = 0
           THEN roi.top_source = "N/A" /\ roi.top_skill = "N/A"
           ELSE FirstMetMode("Source", roi.top_source)
                /\ FirstMetMode("Skill", roi.top_skill)

\* What the view computes when it does not raise: the most frequent values,
\* the one that sorts first when several tie, "N/A" when there are no rows.
TopIsSmallestMode ==
    KpisShown =>
        IF Len(df_agents.rows) = 0
        THEN roi.top_source = "N/A" /\ roi.top_skill = "N/A"
        ELSE SmallestMode("Source", roi.top_source)
             /\ SmallestMode("Skill", roi.top_skill)

\* Two sources tie for the most frequent and the KPI shows the one that
\* sorts first, which is not the one of the first record.
C7_TieNotFirstMet ==
    /\ KpisShown
    /\ Len(agentWs.body) >= 2
    /\ agentWs.body[1]["Source"] \in MostFrequent("Source")
    /\ roi.top_source # agentWs.body[1]["Source"]

(***************************************************************************)
(* Properties of the traffic flow (specification SpecTraffic).             *)
(***************************************************************************)
\* The call statuses of the model that contain Missed, Abandoned or Lost in
\* whatever case.
MissedStatuses == {"Missed", "MISSED CALL", "abandoned", "Call Lost"}

DatedSystem == {i \in 1..Len(df_system.rows) : df_system.rows[i]["Date"] = selected_date}

DatedAgents == {i \in 1..Len(df_agents.rows) : df_agents.rows[i]["Date"] = selected_date}

QueueEntriesOf(q, status) ==
    Cardinality({i \in 1..Len(queueWs[q].body) : queueWs[q].body[i]["Status"] = status})

QueueEntries(status) ==
    QueueEntriesOf("Queue_MAjira", status) + QueueEntriesOf("Queue_General", status)

\* C10: for the selected date D, incoming = the System Log records dated D,
\* handled = the Agent Log records dated D, missed = the System Log records
\* dated D whose callStatus contains Missed, Abandoned or Lost in any case (so
\* missed <= incoming), assigned and pending = the entries of both queues,
\* whatever D, with status exactly Assigned and exactly Ready.
C10_TrafficFlowQuantities ==
    (pc = "sleeping" /\ view_mode = LIVE_TRAFFIC /\ traffic.shown) =>
        /\ traffic.total_hits = Cardinality(DatedSystem)
        /\ traffic.total_handled = Cardinality(DatedAgents)
        /\ traffic.total_missed =
              IF HasCol(df_system, "Call Status")
              THEN Cardinality({i \in DatedSystem :
                                  df_system.rows[i]["Call Status"] \in MissedStatuses})
              ELSE 0
        /\ traffic.total_missed <= traffic.total_hits
        /\ traffic.assigned_count = QueueEntries("Assigned")
        /\ traffic.ready_count = QueueEntries("Ready")

\* Today's flow with a missed call in capitals and a Ready entry in each
\* queue, beside calls and entries that do not count.
C10_MissedAndBothQueues ==
    /\ pc = "sleeping" /\ view_mode = LIVE_TRAFFIC /\ traffic.shown
    /\ selected_date = Today
    /\ traffic.total_hits = 2
    /\ traffic.total_missed = 1
    /\ \E i \in 1..Len(df_system.rows) : df_system.rows[i]["Call Status"] = "MISSED CALL"
    /\ traffic.total_handled = 1
    /\ traffic.ready_count = 2

(***************************************************************************)
(* Properties of the refresh cycle (specification Spec).                   *)
(***************************************************************************)
\* Any run of the script main().
AnyRun ==
    \/ Start
    \/ TimerRerun
    \/ \E v \in Views : SelectView(v)
    \/ \E d \in Dates : SelectDate(d)
    \/ UnlockLogs
    \/ LockData

\* What a run that reads the workbook now gets, and what the run rendered.
ReadNow == load_all_data(connOk, agentWs, systemWs, queueWs)

RenderedNext == [err |-> error_shown', agents |-> df_agents',
                 system |-> df_system', queues |-> df_queues']

\* C1: a run of main() that got the degraded (empty) record sets of a failed
\* load, whatever the view, reaches its sleep-and-rerun step.
C1_DegradedRunReachesSleep ==
    (pc # "idle" /\ error_shown) => pc = "sleeping"

\* C4, as claimed: every run of main(), started by the timer or by a rerun in
\* between, renders record sets read from the workbook during that run.
C4_EveryRunRefetches ==
    [][AnyRun => RenderedNext = ReadNow]_vars

\* C4, amended: a run started by the timer renders what it read from the
\* workbook during that run; any other run renders that, or the cached result
\* of a fetch less than 30 seconds old.
C4_TimerRunRefetches ==
    [][/\ TimerRerun => RenderedNext = ReadNow
       /\ AnyRun => \/ RenderedNext = ReadNow
                    \/ /\ cache.valid
                       /\ cache.age < CACHE_TTL
                       /\ RenderedNext = cache.value]_vars

\* A timer-started run has just rendered rows that were appended to the
\* workbook after an earlier cycle had cached an older result.
C4_TimerRunSeesAppendedRows ==
    /\ trigger = "timer"
    /\ pc = "sleeping"
    /\ slept = 0
    /\ cache.age = 0
    /\ Len(df_agents.rows) >= 1
    /\ df_agents = load_agent_logs(agentWs).df

(***************************************************************************)
(* Re-normalization (specification SpecIdem): the normalizer of Agent Logs *)
(* is run again on the canonical records it produced.                      *)
(***************************************************************************)
\* The canonical records as the header row and the rows the normalizer
\* reads: the columns of df, and each record's values as they are.
AsSheet(df) == Worksheet("ok", df.cols, df.rows)

\* load_agent_logs applied to the records a successful load produced.
Renormalize ==
    /\ pc # "idle"
    /\ ~error_shown
    /\ df_agents' = load_agent_logs(AsSheet(df_agents)).df
    /\ trigger' = "renormalize"
    /\ UNCHANGED <<sheets, cache, pc, slept, view_mode, selected_date,
                   admin_unlocked, df_system, df_queues, error_shown, roi, traffic,
                   leaderboard>>

\* Rows whose timestamp has a day and a month up to 12, or is no date.
IdemCells ==
    {AgentCells(ts, "Interested", "Web", "Plumbing", "Asha", "Billing", "Resolved") :
       ts \in {T_EARLIER, T_BAD}}

InitIdem ==
    /\ connOk = TRUE
    /\ Loadable(Worksheets({"ok"}, NormHeaders, IdemCells, MaxNormRows),
                NoRows(SystemHeader), NoRows(QueueHeader), NoRows(QueueHeader))

NextIdem ==
    \/ NextUser
    \/ Renormalize

SpecIdem == InitIdem /\ [][NextIdem]_vars

DatesAgentCells(ts) ==
    {AgentCells(ts, "Interested", "Web", "Plumbing", "Asha", "Billing", "Resolved")}

DatesSystemCells(ts) == {SystemCells(ts, "Answered")}

InitDates ==
    /\ connOk = TRUE
    /\ Loadable(UNION {Worksheets({"ok"}, {AgentHeader}, DatesAgentCells(ts),
                                  MaxSystemRows) : ts \in {T_TODAY, T_EARLIER}},
                UNION {Worksheets({"ok"}, {SystemHeader}, DatesSystemCells(ts),
                                  MaxSystemRows) : ts \in {T_TODAY, T_EARLIER}},
                NoRows(QueueHeader), NoRows(QueueHeader))

SpecDates == InitDates /\ [][NextUser]_vars

\* The calendar date of the text a/b/2025 read as DD/MM/YYYY.
DayFirstDate(tok) == [day |-> tok.a, month |-> tok.b]

DayFirstRows(ws, d) ==
    {i \in 1..Len(ws.body) : DayFirstDate(ws.body[i]["Timestamp"]) = d}

\* C12: the timestamps of Agent Logs and of System Logs are read day-first,
\* so a row of each with the same date text has the same date, and for the
\* selected date incoming and handled count the rows of that one day, also
\* when day and month are both up to 12.
C12_BothLogsDayFirst ==
    pc # "idle" =>
        /\ \A i \in 1..Len(df_agents.rows) :
              df_agents.rows[i]["Date"] = DayFirstDate(agentWs.body[i]["Timestamp"])
        /\ \A j \in 1..Len(df_system.rows) :
              df_system.rows[j]["Date"] = DayFirstDate(systemWs.body[j]["Timestamp"])
        /\ \A i \in 1..Len(df_agents.rows), j \in 1..Len(df_system.rows) :
              agentWs.body[i]["Timestamp"] = systemWs.body[j]["Timestamp"] =>
                 df_agents.rows[i]["Date"] = df_system.rows[j]["Date"]
        /\ traffic.shown =>
              /\ traffic.total_handled = Cardinality(DayFirstRows(agentWs, selected_date))
              /\ traffic.total_hits = Cardinality(DayFirstRows(systemWs, selected_date))

\* Both logs hold a row of 05/03/2025 and the flow of the 5th of March has
\* been shown.
C12_SameTextInBothLogs ==
    /\ pc = "sleeping" /\ traffic.shown /\ selected_date = Earlier
    /\ Len(df_agents.rows) > 0 /\ Len(df_system.rows) > 0
    /\ agentWs.body[1]["Timestamp"] = T_EARLIER
    /\ systemWs.body[1]["Timestamp"] = T_EARLIER

=============================================================================
